---------------------------- MODULE Spec2Model ----------------------------
(***************************************************************************)
(* Model of src/analyze_metrics.py: the polling loop that queries four     *)
(* Prometheus expressions, forwards each series to the TimeGPT service,    *)
(* republishes a gauge and a counter, and overwrites /app/analysis.txt.    *)
(*                                                                         *)
(* JSON values are tagged records: [t |-> "null"], [t |-> "num", n |-> k], *)
(* [t |-> "str", s |-> "..."], [t |-> "list", items |-> <<...>>] and       *)
(* [t |-> "obj", key |-> value, ...].  A "num" stands for anything float() *)
(* accepts (a JSON number or a numeric string).  The outcome of a Python   *)
(* call is [k |-> "ret", v |-> value] or [k |-> "raise", exc |-> name].    *)
(***************************************************************************)
EXTENDS Integers, Sequences, FiniteSets, TLC

\* Longest 'values' list of a result series given to the two functions on their own.
MaxSamples == 2
\* Number of analysis cycles after which the model stops starting new ones.
MaxCycles == 2

VARIABLES
    pc,                 \* position of the process: startup, loop, metric, report, sleep, exited
    i,                  \* index in queries of the metric the for loop is at
    analysis_results,   \* the dict of line 89, in insertion order
    summary,            \* the text analyze_metrics returned in this cycle (<<>>: none yet)
    analysis_txt,       \* content of /app/analysis.txt
    ANALYSIS_REQUESTS,  \* Counter timegpt_analysis_requests
    LATENCY_FORECAST,   \* Gauge timegpt_latency_forecast
    ANOMALY_COUNT,      \* Counter timegpt_anomaly_count
    slept,              \* argument of the last time.sleep call (0: none yet)
    input,              \* per metric, what the backend and the service gave in this cycle
    incCalls,           \* the ANOMALY_COUNT.inc calls of this cycle: <<metric, amount>>
    setCalls,           \* the LATENCY_FORECAST.set calls of this cycle: <<metric, value>>
    cycleResult,        \* how the current cycle ended: running, raised, written, write_failed
    cycleStartCount,    \* ANOMALY_COUNT when the current cycle began
    lastLatencyMean,    \* forecast mean the service gave in the latest successful latency analysis
    resp,               \* functions on their own: the HTTP outcome handed to query_prometheus
    data,               \* functions on their own: outcome of query_prometheus
    df,                 \* functions on their own: outcome of prepare_timeseries
    fpc                 \* functions on their own: position (idle, query, prepare, done)

vars == <<pc, i, analysis_results, summary, analysis_txt, ANALYSIS_REQUESTS,
          LATENCY_FORECAST, ANOMALY_COUNT, slept, input, incCalls, setCalls, cycleResult,
          cycleStartCount, lastLatencyMean, resp, data, df, fpc>>

loopVars == <<pc, i, analysis_results, summary, analysis_txt, ANALYSIS_REQUESTS,
              LATENCY_FORECAST, ANOMALY_COUNT, slept, input, incCalls, setCalls, cycleResult,
              cycleStartCount, lastLatencyMean>>

fnVars == <<resp, data, df, fpc>>

--------------------------------------------------------------------------
(* JSON values and the Python operations the code applies to them *)

JNull == [t |-> "null"]
JNum(n) == [t |-> "num", n |-> n]
JStr(s) == [t |-> "str", s |-> s]
JList(items) == [t |-> "list", items |-> items]
EmptyDict == [t |-> "obj"]
EmptyList == JList(<<>>)
\* Python's None is what json turns null into.
None == JNull

Ret(v) == [k |-> "ret", v |-> v]
Raise(e) == [k |-> "raise", exc |-> e]

\* Strings of the model that contain the substring 'data'.
StrContainsData(s) == s \in {"data", "metadata"}

\* bool(x): None, 0, "", [] and {} are falsy.
Truthy(j) ==
    CASE j.t = "null" -> FALSE
      [] j.t = "num" -> j.n # 0
      [] j.t = "str" -> j.s # ""
      [] j.t = "list" -> j.items # <<>>
      [] j.t = "obj" -> DOMAIN j # {"t"}

\* 'key' in x, for the x that line 52 can meet.
PyContains(j, key) ==
    CASE j.t = "obj" -> Ret(key \in DOMAIN j)
      [] j.t = "list" -> Ret(\E n \in 1..Len(j.items) : j.items[n] = JStr(key))
      [] j.t = "str" -> Ret(StrContainsData(j.s))
      [] OTHER -> Raise("TypeError")

\* x.get(key, default): only a dict has it.
PyGet(j, key, default) ==
    IF j.t = "obj"
    THEN Ret(IF key \in DOMAIN j THEN j[key] ELSE default)
    ELSE Raise("AttributeError")

\* x[0]
PyFirst(j) ==
    CASE j.t = "list" -> IF j.items = <<>> THEN Raise("IndexError") ELSE Ret(j.items[1])
      [] j.t = "obj" -> Raise("KeyError")
      [] j.t = "str" -> IF j.s = "" THEN Raise("IndexError") ELSE Ret(JStr("c"))
      [] OTHER -> Raise("TypeError")

\* x[1]
PySecond(j) ==
    CASE j.t = "list" -> IF Len(j.items) < 2 THEN Raise("IndexError") ELSE Ret(j.items[2])
      [] j.t = "obj" -> Raise("KeyError")
      [] j.t = "str" -> Raise("IndexError")
      [] OTHER -> Raise("TypeError")

\* x['values']
PyValues(j) ==
    CASE j.t = "obj" -> IF "values" \in DOMAIN j THEN Ret(j["values"]) ELSE Raise("KeyError")
      [] OTHER -> Raise("TypeError")

\* float(x)
PyFloat(j) ==
    CASE j.t = "num" -> Ret(j.n)
      [] j.t = "str" -> Raise("ValueError")
      [] OTHER -> Raise("TypeError")

\* The items a for loop over x visits.
PyIter(j) ==
    CASE j.t = "list" -> Ret(j.items)
      [] j.t = "str" -> Ret([n \in 1..(IF j.s = "" THEN 0 ELSE 1) |-> JStr("c")])
      [] j.t = "obj" -> Ret([n \in 1..(Cardinality(DOMAIN j) - 1) |-> JStr("c")])
      [] OTHER -> Raise("TypeError")

--------------------------------------------------------------------------
(* query_prometheus, lines 38-58 *)

\* The HTTP outcomes of requests.get: a transport error, or a status and a body.
NetError(e) == [kind |-> e]
HttpResponse(status, body) == [kind |-> "response", status |-> status, body |-> body]
NotJson == [t |-> "notjson"]

query_prometheus(r) ==
    IF r.kind # "response" THEN Ret(EmptyDict)       \* ConnectionError, Timeout
    ELSE IF r.status >= 400 THEN Ret(EmptyDict)      \* raise_for_status: HTTPError
    ELSE IF r.body = NotJson THEN Ret(EmptyDict)     \* requests' JSONDecodeError (requests 2.27 on)
    ELSE LET has == PyContains(r.body, "data")
         IN IF has.k = "raise" THEN has
            ELSE IF ~has.v THEN Ret(EmptyDict)
            ELSE Ret(r.body)

--------------------------------------------------------------------------
(* prepare_timeseries, lines 60-74 *)

RECURSIVE Timestamps(_)
\* Line 69: the list comprehension over item[0]; the first failure ends it.
Timestamps(items) ==
    IF items = <<>> THEN Ret(<<>>)
    ELSE LET e == PyFirst(Head(items))
         IN IF e.k = "raise" THEN e
            ELSE LET f == PyFloat(e.v)
                 IN IF f.k = "raise" THEN f
                    ELSE LET rest == Timestamps(Tail(items))
                         IN IF rest.k = "raise" THEN rest
                            ELSE Ret(<<f.v>> \o rest.v)

RECURSIVE Values(_)
\* Line 70: the list comprehension over item[1].
Values(items) ==
    IF items = <<>> THEN Ret(<<>>)
    ELSE LET e == PySecond(Head(items))
         IN IF e.k = "raise" THEN e
            ELSE LET f == PyFloat(e.v)
                 IN IF f.k = "raise" THEN f
                    ELSE LET rest == Values(Tail(items))
                         IN IF rest.k = "raise" THEN rest
                            ELSE Ret(<<f.v>> \o rest.v)

\* pd.DataFrame({'ds': timestamps, 'y': values}): one row per position.
DataFrame(timestamps, values) ==
    [t |-> "df", rows |-> [n \in 1..Len(timestamps) |-> [ds |-> timestamps[n], y |-> values[n]]]]

\* The exceptions line 72 catches.
Caught == {"IndexError", "KeyError", "ValueError"}

\* A slip: a caught exception gives an empty frame instead of None.
ParseSeriesKeepsGoing(results) ==
    LET first == PyFirst(results)
        vals == IF first.k = "raise" THEN first ELSE PyValues(first.v)
        items == IF vals.k = "raise" THEN vals ELSE PyIter(vals.v)
        ts == IF items.k = "raise" THEN items ELSE Timestamps(items.v)
        ys == IF ts.k = "raise" THEN ts ELSE Values(items.v)
    IN IF ys.k = "raise"
       THEN IF ys.exc \in Caught THEN Ret(DataFrame(<<>>, <<>>)) ELSE ys
       ELSE Ret(DataFrame(ts.v, ys.v))

\* Lines 68-74: the try block; a caught exception gives None, any other propagates.
ParseSeries(results) ==
    LET first == PyFirst(results)
        vals == IF first.k = "raise" THEN first ELSE PyValues(first.v)
        items == IF vals.k = "raise" THEN vals ELSE PyIter(vals.v)
        ts == IF items.k = "raise" THEN items ELSE Timestamps(items.v)
        ys == IF ts.k = "raise" THEN ts ELSE Values(items.v)
    IN IF ys.k = "raise"
       THEN IF ys.exc \in Caught THEN Ret(None) ELSE ys
       ELSE Ret(DataFrame(ts.v, ys.v))

prepare_timeseries(d) ==
    IF ~Truthy(d) THEN Ret(None)
    ELSE LET inner == PyGet(d, "data", EmptyDict)
             results == IF inner.k = "raise" THEN inner ELSE PyGet(inner.v, "result", EmptyList)
         IN IF results.k = "raise" THEN results
            ELSE IF ~Truthy(results.v) THEN Ret(None)
            ELSE ParseSeries(results.v)

--------------------------------------------------------------------------
(* The HTTP outcomes given to the two functions on their own *)

RECURSIVE SeqsUpTo(_, _)
\* All sequences over S of length at most n.
SeqsUpTo(S, n) ==
    IF n = 0 THEN {<<>>}
    ELSE LET shorter == SeqsUpTo(S, n - 1)
         IN shorter \cup {Append(q, x) : q \in {r \in shorter : Len(r) = n - 1}, x \in S}

\* What a field of a sample can hold: a number, a non-numeric string, null.
Elems == {JNum(1), JNum(2), JStr("abc"), JNull}
\* A sample is normally [timestamp, value]; shorter lists and null also occur here.
Samples == {JNull} \cup {JList(q) : q \in SeqsUpTo(Elems, 2)}
ValueLists == SeqsUpTo(Samples, MaxSamples)
Series(vals) == [t |-> "obj", values |-> vals]
FirstSeries ==
    {Series(JList(v)) : v \in ValueLists} \cup {Series(JNull), EmptyDict, JNull}
OtherSeries == {Series(JList(<<JList(<<JNum(2), JNum(2)>>)>>)), EmptyDict}
Results ==
    {JList(<<f>>) : f \in FirstSeries}
        \cup {JList(<<f, o>>) : f \in FirstSeries, o \in OtherSeries}
        \cup {EmptyList, JNull, JNum(5), [t |-> "obj", error |-> JStr("x")]}
DataField ==
    {[t |-> "obj", result |-> r] : r \in Results}
        \cup {EmptyDict, JNull, EmptyList, JStr("x")}
Body(d) == [t |-> "obj", status |-> JStr("success"), data |-> d]
Bodies ==
    {Body(d) : d \in DataField}
        \cup {[t |-> "obj", status |-> JStr("error")], EmptyDict, JNull, JNum(5),
              JStr("metadata"), JStr("oops"), JList(<<JStr("data")>>), EmptyList, NotJson}
Responses ==
    {NetError("ConnectionError"), NetError("Timeout")}
        \cup {HttpResponse(200, b) : b \in Bodies}
        \cup {HttpResponse(st, b) : st \in {404, 503},
                                    b \in {NotJson, Body([t |-> "obj", result |-> EmptyList])}}

--------------------------------------------------------------------------
(* The loop's constants *)

\* Line 82: the keys of queries, in their order.
queries == <<"latency", "error_rate", "heap_usage", "gc_pauses">>
Metrics == {queries[n] : n \in 1..Len(queries)}
\* Line 98: h, the forecast horizon.
Horizon == 12
\* Line 143: the argument of time.sleep.
PollInterval == 30

NoResponse == NetError("none")

LoopInit ==
    /\ pc = "startup"
    /\ i = 1
    /\ analysis_results = <<>>
    /\ summary = <<>>
    /\ analysis_txt = <<>>
    /\ ANALYSIS_REQUESTS = 0
    /\ LATENCY_FORECAST = 0
    /\ ANOMALY_COUNT = 0
    /\ slept = 0
    /\ input = [m \in Metrics |-> "pending"]
    /\ incCalls = <<>>
    /\ setCalls = <<>>
    /\ cycleResult = "running"
    /\ cycleStartCount = 0
    /\ lastLatencyMean = 0

Init ==
    /\ LoopInit
    /\ resp = NoResponse
    /\ data = Ret(None)
    /\ df = Ret(None)
    /\ fpc = "idle"

--------------------------------------------------------------------------
(* The analysis service (nixtla_client), an external collaborator *)

\* The forecast the service gives in a cycle, in units of 0.00001: the answers
\* change from one cycle to the next.
Forecast(cycle) ==
    IF cycle % 2 = 1
    THEN [n \in 1..Horizon |-> 15000]
    ELSE [n \in 1..Horizon |-> IF n % 2 = 1 THEN 12345 ELSE 12347]

\* The flags the service gives in a cycle, one per row of the frame: every point
\* in one cycle, the first point only in the next.
AnomalyFlags(frame, cycle) == [n \in 1..Len(frame.rows) |-> cycle % 2 = 1 \/ n = 1]

\* What the two calls of lines 98 and 100 can give: forecast raises; forecast
\* answers and detect_anomalies raises; both answer.
ServiceOutcomes(frame, cycle) ==
    {[forecast |-> Raise("Exception"), detect |-> Raise("Exception")],
     [forecast |-> Ret(Forecast(cycle)), detect |-> Raise("Exception")],
     [forecast |-> Ret(Forecast(cycle)), detect |-> Ret(AnomalyFlags(frame, cycle))]}

RECURSIVE Sum(_)
Sum(q) == IF q = <<>> THEN 0 ELSE Head(q) + Sum(Tail(q))

\* forecast['TimeGPT'].mean()
Mean(column) == Sum(column) \div Len(column)

\* detect_anomalies(...)['anomaly'].sum()
SumFlags(flags) == Cardinality({n \in 1..Len(flags) : flags[n]})

--------------------------------------------------------------------------
(* analyze_metrics, lines 76-125 *)

\* Lines 101-104: analysis_results[metric] = {...}; the dict keeps insertion order.
Record(results, metric, mean, anomalies) ==
    Append(results, [metric |-> metric, forecast |-> mean, anomalies |-> anomalies])

\* A slip: the gauge is set whatever the metric.
GaugeSetAnyMetric(gauge, metric, mean) == mean

\* Lines 106-107: LATENCY_FORECAST.set, for the latency metric only.
GaugeSet(gauge, metric, mean) == IF metric = "latency" THEN mean ELSE gauge

\* A slip: inc() without its argument adds 1.
CounterIncByOne(count, anomalies) == count + 1

\* Line 108: ANOMALY_COUNT.inc(anomalies).
CounterInc(count, anomalies) == count + anomalies

\* A slip: the except clause starts the results over.
TryAnalysisForgets(st, metric, svc) ==
    IF svc.forecast.k = "raise" \/ svc.detect.k = "raise"
    THEN [st EXCEPT !.results = <<>>]
    ELSE LET anomalies == SumFlags(svc.detect.v)
             mean == Mean(svc.forecast.v)
         IN [results |-> Record(st.results, metric, mean, anomalies),
             gauge |-> GaugeSet(st.gauge, metric, mean),
             sets |-> IF metric = "latency"
                      THEN Append(st.sets, <<metric, mean>>) ELSE st.sets,
             count |-> CounterInc(st.count, anomalies),
             incs |-> Append(st.incs, <<metric, anomalies>>)]

\* A slip: the forecast is recorded and published before detect_anomalies is
\* called, with the anomalies added afterwards.
TryAnalysisPublishesEarly(st, metric, svc) ==
    IF svc.forecast.k = "raise" THEN st
    ELSE LET mean == Mean(svc.forecast.v)
             early == [st EXCEPT !.results = Record(st.results, metric, mean, 0),
                                 !.gauge = GaugeSet(st.gauge, metric, mean),
                                 !.sets = IF metric = "latency"
                                          THEN Append(st.sets, <<metric, mean>>)
                                          ELSE st.sets]
         IN IF svc.detect.k = "raise" THEN early
            ELSE LET anomalies == SumFlags(svc.detect.v)
                 IN [early EXCEPT !.results = Record(st.results, metric, mean, anomalies),
                                  !.count = CounterInc(st.count, anomalies),
                                  !.incs = Append(st.incs, <<metric, anomalies>>)]

\* Lines 96-110: the try block around the two service calls.  st holds
\* analysis_results, the gauge, the counter and the log of their calls.
TryAnalysis(st, metric, svc) ==
    IF svc.forecast.k = "raise" THEN st
    ELSE IF svc.detect.k = "raise" THEN st
    ELSE LET anomalies == SumFlags(svc.detect.v)
             mean == Mean(svc.forecast.v)
         IN [results |-> Record(st.results, metric, mean, anomalies),
             gauge |-> GaugeSet(st.gauge, metric, mean),
             sets |-> IF metric = "latency"
                      THEN Append(st.sets, <<metric, mean>>) ELSE st.sets,
             count |-> CounterInc(st.count, anomalies),
             incs |-> Append(st.incs, <<metric, anomalies>>)]

\* str.capitalize() on the four keys.
Capitalize(m) ==
    CASE m = "latency" -> "Latency"
      [] m = "error_rate" -> "Error_rate"
      [] m = "heap_usage" -> "Heap_usage"
      [] m = "gc_pauses" -> "Gc_pauses"

\* format(x, '.4f'): x is in units of 0.00001, the result in units of 0.0001.
Fmt4(x) == (x + 5) \div 10

RECURSIVE RenderEntries(_)
\* Lines 113-116: three lines per entry of analysis_results, in its order.
RenderEntries(results) ==
    IF results = <<>> THEN <<>>
    ELSE <<[line |-> "metric", name |-> Capitalize(Head(results).metric)],
           [line |-> "forecast", value |-> Fmt4(Head(results).forecast)],
           [line |-> "anomalies", count |-> Head(results).anomalies]>>
             \o RenderEntries(Tail(results))

\* Lines 112-116.
Render(results) == <<[line |-> "title"]>> \o RenderEntries(results)

\* Lines 119-120: open(..., "w") truncates, then the text is written.
WriteFile(old, text) == text

\* A slip: no try around the call, so the exception ends the process.
AfterCycleExceptionUncaught == "exited"

\* Where the process goes when an exception leaves analyze_metrics: lines 141-143.
AfterCycleException == "sleep"

--------------------------------------------------------------------------
(* The backend answers the loop is run against, one or more per branch of the
   two functions *)

GoodSamples == JList(<<JList(<<JNum(1), JNum(1)>>), JList(<<JNum(2), JNum(2)>>)>>)
SeriesBody(first) == Body([t |-> "obj", resultType |-> JStr("matrix"), result |-> first])

CycleResponses ==
    {NetError("Timeout"),
     HttpResponse(503, NotJson),
     HttpResponse(200, [t |-> "obj", status |-> JStr("error")]),
     HttpResponse(200, JNull),
     HttpResponse(200, SeriesBody(EmptyList)),
     HttpResponse(200, SeriesBody(JList(<<Series(JList(<<JList(<<JNum(1), JStr("abc")>>)>>))>>))),
     HttpResponse(200, SeriesBody(JList(<<Series(JList(<<JList(<<JNum(1), JNull>>)>>))>>))),
     HttpResponse(200, SeriesBody(JList(<<Series(GoodSamples)>>))),
     HttpResponse(200, SeriesBody(JList(<<Series(GoodSamples), EmptyDict>>)))}

\* The definitions from here to the actions describe what the backend and the
\* service handed to the loop; the actions record it in input, and the
\* properties are stated against that record.

\* A sample with a timestamp and a value that are both numbers.
ParseableSample(smp) ==
    /\ smp.t = "list"
    /\ Len(smp.items) >= 2
    /\ smp.items[1].t = "num"
    /\ smp.items[2].t = "num"

\* The backend answered with a result whose first series is a list of parseable
\* samples.  Every other answer is malformed or empty.
WellFormed(r) ==
    /\ r.kind = "response"
    /\ r.status < 400
    /\ r.body.t = "obj"
    /\ "data" \in DOMAIN r.body
    /\ r.body.data.t = "obj"
    /\ "result" \in DOMAIN r.body.data
    /\ r.body.data.result.t = "list"
    /\ r.body.data.result.items # <<>>
    /\ r.body.data.result.items[1].t = "obj"
    /\ "values" \in DOMAIN r.body.data.result.items[1]
    /\ r.body.data.result.items[1].values.t = "list"
    /\ \A n \in 1..Len(r.body.data.result.items[1].values.items) :
           ParseableSample(r.body.data.result.items[1].values.items[n])

\* What a metric met in this cycle: a malformed answer, or a series and then the
\* service's behaviour ("unanalysed": a series the service was not called on).
Classify(r, service) == IF WellFormed(r) THEN service ELSE "malformed"

ServiceKind(svc) ==
    IF svc.forecast.k = "raise" THEN "forecast_raised"
    ELSE IF svc.detect.k = "raise" THEN "detect_raised"
    ELSE "ok"

--------------------------------------------------------------------------
(* The process *)

\* Lines 23-31 and 128-136: the key, the metrics endpoint and the test query.
Startup ==
    /\ pc = "startup"
    /\ \E key \in {"missing", "invalid", "valid"}, bound \in BOOLEAN, r \in CycleResponses :
          pc' = IF key = "valid" /\ bound /\ query_prometheus(r).k = "ret"
                THEN "loop" ELSE "exited"
    /\ UNCHANGED <<i, analysis_results, summary, analysis_txt, ANALYSIS_REQUESTS,
                   LATENCY_FORECAST, ANOMALY_COUNT, slept, input, incCalls, setCalls,
                   cycleResult, cycleStartCount, lastLatencyMean>>
    /\ UNCHANGED fnVars

\* Lines 138-140 and 77-89: the loop calls analyze_metrics.
BeginCycle ==
    /\ pc = "loop"
    /\ ANALYSIS_REQUESTS < MaxCycles
    /\ ANALYSIS_REQUESTS' = ANALYSIS_REQUESTS + 1
    /\ analysis_results' = <<>>
    /\ summary' = <<>>
    /\ i' = 1
    /\ pc' = "metric"
    /\ input' = [m \in Metrics |-> "pending"]
    /\ incCalls' = <<>>
    /\ setCalls' = <<>>
    /\ cycleResult' = "running"
    /\ cycleStartCount' = ANOMALY_COUNT
    /\ UNCHANGED <<analysis_txt, LATENCY_FORECAST, ANOMALY_COUNT, slept, lastLatencyMean>>
    /\ UNCHANGED fnVars

\* Lines 90-110: one iteration of the for loop, for the metric queries[i].
ProcessMetric ==
    /\ pc = "metric"
    /\ \E r \in CycleResponses :
         LET metric == queries[i]
             q == query_prometheus(r)
             d == IF q.k = "raise" THEN q ELSE prepare_timeseries(q.v)
         IN IF d.k = "raise"
            THEN \* the exception leaves analyze_metrics and is caught at line 141
                 /\ pc' = AfterCycleException
                 /\ cycleResult' = "raised"
                 /\ input' = [input EXCEPT ![metric] = Classify(r, "unanalysed")]
                 /\ UNCHANGED <<i, analysis_results, LATENCY_FORECAST, ANOMALY_COUNT,
                                incCalls, setCalls, lastLatencyMean>>
            ELSE IF d.v = None
            THEN \* line 94: continue
                 /\ pc' = IF i = Len(queries) THEN "report" ELSE "metric"
                 /\ i' = IF i = Len(queries) THEN i ELSE i + 1
                 /\ input' = [input EXCEPT ![metric] = Classify(r, "unanalysed")]
                 /\ UNCHANGED <<analysis_results, LATENCY_FORECAST, ANOMALY_COUNT,
                                incCalls, setCalls, lastLatencyMean, cycleResult>>
            ELSE \E svc \in ServiceOutcomes(d.v, ANALYSIS_REQUESTS) :
                 LET st == TryAnalysis([results |-> analysis_results,
                                        gauge |-> LATENCY_FORECAST,
                                        sets |-> setCalls,
                                        count |-> ANOMALY_COUNT,
                                        incs |-> incCalls], metric, svc)
                 IN /\ analysis_results' = st.results
                    /\ LATENCY_FORECAST' = st.gauge
                    /\ setCalls' = st.sets
                    /\ ANOMALY_COUNT' = st.count
                    /\ incCalls' = st.incs
                    /\ pc' = IF i = Len(queries) THEN "report" ELSE "metric"
                    /\ i' = IF i = Len(queries) THEN i ELSE i + 1
                    /\ input' = [input EXCEPT ![metric] = Classify(r, ServiceKind(svc))]
                    /\ lastLatencyMean' =
                          IF metric = "latency" /\ WellFormed(r) /\ ServiceKind(svc) = "ok"
                          THEN Mean(svc.forecast.v) ELSE lastLatencyMean
                    /\ UNCHANGED cycleResult
    /\ UNCHANGED <<summary, analysis_txt, ANALYSIS_REQUESTS, slept, cycleStartCount>>
    /\ UNCHANGED fnVars

\* Lines 112-125 and 140: the summary is rendered, the file written, the text
\* returned and printed.  A failed open leaves the file as it was, a failed
\* write leaves it truncated.
WriteReport ==
    /\ pc = "report"
    /\ summary' = Render(analysis_results)
    /\ \E outcome \in {"written", "open_failed", "write_failed"} :
          /\ analysis_txt' = CASE outcome = "written" -> WriteFile(analysis_txt, summary')
                               [] outcome = "open_failed" -> analysis_txt
                               [] outcome = "write_failed" -> <<>>
          /\ cycleResult' = IF outcome = "written" THEN "written" ELSE "write_failed"
    /\ pc' = "sleep"
    /\ UNCHANGED <<i, analysis_results, ANALYSIS_REQUESTS, LATENCY_FORECAST, ANOMALY_COUNT,
                   slept, input, incCalls, setCalls, cycleStartCount, lastLatencyMean>>
    /\ UNCHANGED fnVars

\* Line 143.
Sleep ==
    /\ pc = "sleep"
    /\ slept' = PollInterval
    /\ pc' = "loop"
    /\ UNCHANGED <<i, analysis_results, summary, analysis_txt, ANALYSIS_REQUESTS,
                   LATENCY_FORECAST, ANOMALY_COUNT, input, incCalls, setCalls,
                   cycleResult, cycleStartCount, lastLatencyMean>>
    /\ UNCHANGED fnVars

Next == Startup \/ BeginCycle \/ ProcessMetric \/ WriteReport \/ Sleep

Spec == Init /\ [][Next]_vars

\* The process is sequential and every call it makes returns or raises (the
\* query has a timeout), so a step that can be taken is taken.
LiveSpec == Spec /\ WF_vars(Next)

--------------------------------------------------------------------------
(* The two functions on their own: one call of each per behaviour *)

InitFn ==
    /\ LoopInit
    /\ resp \in Responses
    /\ data = Ret(None)
    /\ df = Ret(None)
    /\ fpc = "query"

FnQuery ==
    /\ fpc = "query"
    /\ data' = query_prometheus(resp)
    /\ fpc' = IF data'.k = "raise" THEN "done" ELSE "prepare"
    /\ UNCHANGED <<resp, df>>
    /\ UNCHANGED loopVars

FnPrepare ==
    /\ fpc = "prepare"
    /\ df' = prepare_timeseries(data.v)
    /\ fpc' = "done"
    /\ UNCHANGED <<resp, data>>
    /\ UNCHANGED loopVars

NextFn == FnQuery \/ FnPrepare

SpecFn == InitFn /\ [][NextFn]_vars

--------------------------------------------------------------------------
(* Properties *)

\* The metrics of analysis_results (the Summary), in its order.
SummaryMetrics == [n \in 1..Len(analysis_results) |-> analysis_results[n].metric]
InSummary(m) == \E n \in 1..Len(analysis_results) : analysis_results[n].metric = m
\* A call of the log was made for metric m.
Called(log, m) == \E n \in 1..Len(log) : log[n][1] = m
\* The cycle's for loop has gone through all four metrics.
AllProcessed == \A m \in Metrics : input[m] # "pending"

RECURSIVE NamesIn(_)
\* The metric names a rendered text lists, in its order.
NamesIn(text) ==
    IF text = <<>> THEN <<>>
    ELSE (IF Head(text).line = "metric" THEN <<Head(text).name>> ELSE <<>>)
             \o NamesIn(Tail(text))

RECURSIVE NamesOfOk(_)
\* The capitalized names of the metrics of q that were analysed successfully
\* in this cycle, in the order of q.
NamesOfOk(q) ==
    IF q = <<>> THEN <<>>
    ELSE (IF input[Head(q)] = "ok" THEN <<Capitalize(Head(q))>> ELSE <<>>)
             \o NamesOfOk(Tail(q))

RECURSIVE SumAnomalies(_)
SumAnomalies(results) ==
    IF results = <<>> THEN 0 ELSE Head(results).anomalies + SumAnomalies(Tail(results))

RECURSIVE SumAmounts(_)
SumAmounts(log) == IF log = <<>> THEN 0 ELSE Head(log)[2] + SumAmounts(Tail(log))

\* C1: a metric whose backend answer was malformed or empty in this cycle (an
\* empty query result, no data/result content, a sample that cannot be parsed)
\* is not in the Summary, is not in the rendered text, and neither
\* ANOMALY_COUNT.inc nor LATENCY_FORECAST.set was called for it.
C1_MalformedNotPublished ==
    \A m \in Metrics :
        input[m] = "malformed" =>
            /\ ~InSummary(m)
            /\ \A n \in 1..Len(NamesIn(summary)) : NamesIn(summary)[n] # Capitalize(m)
            /\ ~Called(incCalls, m)
            /\ ~Called(setCalls, m)

\* A cycle ran to its end with the latency answer malformed and another metric published.
C1_Witness ==
    /\ pc = "sleep"
    /\ cycleResult = "written"
    /\ input["latency"] = "malformed"
    /\ input["gc_pauses"] = "malformed"
    /\ InSummary("heap_usage")
    /\ ANOMALY_COUNT > cycleStartCount

\* C2: when a metric's query failed or its answer had no parseable series, the
\* cycle still goes through all four metrics and runs to its end (the summary
\* is rendered, no exception ends the cycle), and the loop then sleeps 30.
C2_FailureNotCycleFatal ==
    (pc \in {"sleep", "loop"} /\ \E m \in Metrics : input[m] = "malformed") =>
        /\ AllProcessed
        /\ cycleResult # "raised"
        /\ summary # <<>>
        /\ pc = "loop" => slept = PollInterval

\* C3: when the service raised for exactly one metric and the other three were
\* queried, built and analysed successfully, the Summary holds the other three
\* in query order, the rendered text lists them, and no exception left
\* analyze_metrics.
C3_OneServiceFailure ==
    \A m \in Metrics :
        (/\ pc \in {"report", "sleep", "loop"}
         /\ input[m] \in {"forecast_raised", "detect_raised"}
         /\ \A o \in Metrics \ {m} : input[o] = "ok") =>
            /\ SummaryMetrics = SelectSeq(queries, LAMBDA x : x # m)
            /\ cycleResult # "raised"
            /\ pc # "report" => NamesIn(summary) = NamesOfOk(queries)

\* The service raised for heap_usage only, after earlier metrics were recorded.
C3_Witness ==
    /\ pc = "sleep"
    /\ input["heap_usage"] = "forecast_raised"
    /\ \A o \in Metrics \ {"heap_usage"} : input[o] = "ok"

\* C4: the anomaly counter never decreases, and at every point of a cycle it
\* exceeds its value at the start of the cycle by exactly the sum of the
\* anomaly counts in the Summary, whose metrics are the ones analysed
\* successfully.
C4_CounterAddsSummaryAnomalies ==
    [][/\ ANOMALY_COUNT' >= ANOMALY_COUNT
       /\ ANOMALY_COUNT' = cycleStartCount' + SumAnomalies(analysis_results')
       /\ \A m \in Metrics : InSummary(m)' <=> (input'[m] = "ok")]_vars

\* A second cycle added to a counter the first cycle had raised, with one metric skipped.
C4_Witness ==
    /\ pc = "sleep"
    /\ ANALYSIS_REQUESTS = 2
    /\ cycleStartCount > 0
    /\ ANOMALY_COUNT > cycleStartCount
    /\ \E m \in Metrics : input[m] = "detect_raised"
    /\ \E m \in Metrics : input[m] = "malformed"

\* C5: the latency gauge is the forecast mean of the latest successful analysis
\* of latency (0 before the first), and only latency sets it.
C5_GaugeIsLatestLatencyMean ==
    /\ LATENCY_FORECAST = lastLatencyMean
    /\ \A n \in 1..Len(setCalls) : setCalls[n][1] = "latency"

\* The second cycle failed on latency, analysed another metric, and the gauge
\* still holds the first cycle's mean.
C5_Witness ==
    /\ pc = "sleep"
    /\ ANALYSIS_REQUESTS = 2
    /\ input["latency"] \in {"malformed", "forecast_raised", "detect_raised"}
    /\ input["error_rate"] = "ok"
    /\ LATENCY_FORECAST = Mean(Forecast(1))

\* The request failed in the sense of the contract: a transport error, a
\* non-2xx status, a body that is not an object, or an object without 'data'.
RequestFailed(r) ==
    \/ r.kind # "response"
    \/ r.status \notin 200..299
    \/ r.body.t # "obj"
    \/ "data" \notin DOMAIN r.body

\* C6: query_prometheus never raises: it returns the empty result when the
\* request failed, and the parsed body otherwise.
C6_QueryNeverRaises ==
    fpc \in {"prepare", "done"} =>
        /\ data.k = "ret"
        /\ data.v = IF RequestFailed(resp) THEN EmptyDict ELSE resp.body

\* The raw result has a result list whose first series has a list of samples.
HasSampleList(d) ==
    /\ d.t = "obj"
    /\ "data" \in DOMAIN d
    /\ d.data.t = "obj"
    /\ "result" \in DOMAIN d.data
    /\ d.data.result.t = "list"
    /\ d.data.result.items # <<>>
    /\ d.data.result.items[1].t = "obj"
    /\ "values" \in DOMAIN d.data.result.items[1]
    /\ d.data.result.items[1].values.t = "list"

FirstSamples(d) == d.data.result.items[1].values.items

\* The raw results for which the contract says absent: the empty result, an
\* empty result list, a first series with no samples, a sample with a missing
\* field or a non-numeric value.
MustBeAbsent(d) ==
    \/ d = EmptyDict
    \/ /\ d.t = "obj"
       /\ "data" \in DOMAIN d
       /\ d.data.t = "obj"
       /\ "result" \in DOMAIN d.data
       /\ d.data.result = EmptyList
    \/ /\ HasSampleList(d)
       /\ \/ FirstSamples(d) = <<>>
          \/ \E n \in 1..Len(FirstSamples(d)) : ~ParseableSample(FirstSamples(d)[n])

\* C7: a series prepare_timeseries returns is non-empty and has one point per
\* sample of the first result series, in order; and for the raw results the
\* contract lists it returns absent, without raising.
C7_AbsentOrCompleteSeries ==
    (fpc = "done" /\ data.k = "ret") =>
        /\ (df.k = "ret" /\ df.v # None) =>
              /\ HasSampleList(data.v)
              /\ df.v.rows # <<>>
              /\ Len(df.v.rows) = Len(FirstSamples(data.v))
              /\ \A n \in 1..Len(df.v.rows) :
                    /\ ParseableSample(FirstSamples(data.v)[n])
                    /\ df.v.rows[n].ds = FirstSamples(data.v)[n].items[1].n
                    /\ df.v.rows[n].y = FirstSamples(data.v)[n].items[2].n
        /\ MustBeAbsent(data.v) => df = Ret(None)

\* C8: once startup has succeeded the process never exits; every sleep is of
\* the fixed interval and leads back to the loop; and from any point of the
\* running loop, also after a cycle that raised, the next cycle starts (as long
\* as the model's bound on cycles allows one).
C8_LoopNeverStops ==
    /\ [][pc # "startup" => pc' # "exited"]_vars
    /\ [][pc = "sleep" => (pc' = "loop" /\ slept' = PollInterval)]_vars
    /\ \A c \in 0..(MaxCycles - 1) :
          (pc \notin {"startup", "exited"} /\ ANALYSIS_REQUESTS = c)
              ~> (ANALYSIS_REQUESTS = c + 1)

\* A cycle ended by an exception, the loop slept, and a further cycle started.
C8_Witness ==
    /\ pc = "loop"
    /\ cycleResult = "raised"
    /\ slept = PollInterval
    /\ ANALYSIS_REQUESTS < MaxCycles

\* C9: every cycle overwrites the report with its own Summary: after each
\* cycle whose write did not fail, the report is the title followed by three
\* lines for each metric analysed successfully in that cycle, in query order,
\* and nothing else.
C9_EveryCycleOverwrites ==
    (pc \in {"sleep", "loop"} /\ ANALYSIS_REQUESTS > 0 /\ cycleResult # "write_failed") =>
        /\ NamesIn(analysis_txt) = NamesOfOk(queries)
        /\ Len(analysis_txt) = 1 + 3 * Len(NamesOfOk(queries))

\* What does hold: the same, for the cycles that reach line 119 and whose
\* write succeeds.
ReportOfWrittenCycle ==
    (pc \in {"sleep", "loop"} /\ cycleResult = "written") =>
        /\ NamesIn(analysis_txt) = NamesOfOk(queries)
        /\ Len(analysis_txt) = 1 + 3 * Len(NamesOfOk(queries))
        /\ analysis_txt = summary

\* C10: in every cycle a metric is in the Summary exactly when inc was called
\* for it, with the anomaly count the Summary shows; latency is in the Summary
\* exactly when set was called for it; the counter moved by what the inc calls
\* added; and a metric whose forecast succeeded and whose detect_anomalies
\* raised is in neither the Summary nor the calls.
C10_PublishedIffInSummary ==
    /\ \A m \in Metrics :
          /\ InSummary(m) <=> Called(incCalls, m)
          /\ input[m] = "detect_raised" =>
                ~InSummary(m) /\ ~Called(incCalls, m) /\ ~Called(setCalls, m)
    /\ InSummary("latency") <=> Called(setCalls, "latency")
    /\ Len(incCalls) = Len(analysis_results)
    /\ \A n \in 1..Len(incCalls) :
          incCalls[n] = <<analysis_results[n].metric, analysis_results[n].anomalies>>
    /\ ANOMALY_COUNT = cycleStartCount + SumAmounts(incCalls)

\* detect_anomalies raised for latency after its forecast succeeded, and a
\* later metric was published.
C10_Witness ==
    /\ pc = "sleep"
    /\ input["latency"] = "detect_raised"
    /\ InSummary("error_rate")
    /\ LATENCY_FORECAST = 0

==========================================================================
